---- MODULE Spec2Model ----
(***************************************************************************)
(* Model of demoware, a mock HTTP server that serves randomized metrics.   *)
(* The model follows the snapshot of main.go that carries the middlewares  *)
(* (src/unnamed/part_000): the command line flags, the start-up checks,    *)
(* the handler chain built by registerMetricsHandler, the goroutines       *)
(* (main, the signal watcher, doServe, one per request) and the parts of   *)
(* net/http, math/rand and os/signal the program relies on.                *)
(***************************************************************************)
EXTENDS Integers, Sequences, FiniteSets, TLC

(***************************************************************************)
(* Bounds of the model.                                                    *)
(***************************************************************************)
\* the small values of --metrics-min-count / --metrics-max-count: 0..SmallCount
SmallCount == 2
\* probabilities and the draws of rand.Float64 are multiples of 1/ProbScale
ProbScale == 3
\* rand.Int31n(n) is enumerated in full up to this n, by its extremes above it
DrawEnum == 4

(***************************************************************************)
(* 32-bit integers.  A uint flag value is the pair hi*2^31 + lo, so that   *)
(* every number the model computes with stays inside the int32 range.      *)
(***************************************************************************)
MaxInt32 == 2147483647
MinInt32 == (-MaxInt32) - 1

UintVal(hi, lo) == [hi |-> hi, lo |-> lo]

\* int32(u) of a uint u: the low 32 bits, read in two's complement
Int32(u) == IF u.hi = 0 THEN u.lo ELSE (u.lo - MaxInt32) - 1

\* a <= b on uint values
ULe(a, b) == a.hi < b.hi \/ (a.hi = b.hi /\ a.lo <= b.lo)

\* the uint value of a non-negative int32
ToUint(n) == UintVal(0, n)

\* a - b on int32, wrapping
Sub32(a, b) ==
    IF a >= 0 /\ b < 0 /\ a > MaxInt32 + b
    THEN (a - MaxInt32 - 1) + (((-1) - b) - MaxInt32)
    ELSE IF a < 0 /\ b > 0 /\ a < MinInt32 + b
    THEN ((a + MaxInt32) + 1) + ((MaxInt32 - b) + 1)
    ELSE a - b

\* a + b on int32, wrapping
Add32(a, b) ==
    IF a > 0 /\ b > 0 /\ a > MaxInt32 - b
    THEN (a - MaxInt32 - 1) + (b - MaxInt32 - 1)
    ELSE IF a < 0 /\ b < 0 /\ a < MinInt32 - b
    THEN ((a + MaxInt32) + 1) + ((b + MaxInt32) + 1)
    ELSE a + b

(***************************************************************************)
(* float64 values: a multiple num/ProbScale, or NaN.  Every comparison     *)
(* with NaN is false, and NaN != x is true.                                *)
(***************************************************************************)
Float(k) == [nan |-> FALSE, num |-> k]
NaN == [nan |-> TRUE, num |-> 0]
FLt(a, b) == ~a.nan /\ ~b.nan /\ a.num < b.num
FLe(a, b) == ~a.nan /\ ~b.nan /\ a.num <= b.num
FNe(a, b) == a.nan \/ b.nan \/ a.num # b.num

(***************************************************************************)
(* math/rand.                                                              *)
(***************************************************************************)
\* rand.Int31n(n) panics when n <= 0
Int31nPanics(n) == n <= 0

\* the values rand.Int31n(n) can return, n > 0: all of [0, n)
Int31nDraws(n) ==
    IF n <= DrawEnum THEN 0 .. (n - 1) ELSE {0, 1, n - 2, n - 1}

\* the values rand.Float64() can return: [0, 1)
Float64Draws == {Float(k) : k \in 0 .. (ProbScale - 1)}

\* the values rand.Float32() stores in a payload: [0, 1), by one representative
\* (no branch of the program reads a payload value)
Float32Draws == {Float(0)}

(***************************************************************************)
(* The command line.                                                       *)
(***************************************************************************)
\* --metrics-min-count / --metrics-max-count (cli.UintFlag): small counts, and
\* 2^31 and 2^32-1, which int32() turns into MinInt32 and -1
FlagValues ==
    {UintVal(0, k) : k \in 0 .. SmallCount} \cup {UintVal(1, 0), UintVal(1, MaxInt32)}

\* --with-random-error-prob (cli.Float64Flag): below 0, 0, 1/ProbScale, 1, above
\* 1, and NaN (strconv.ParseFloat accepts "NaN")
ProbValues ==
    {Float(-1), Float(0), Float(1), Float(ProbScale), Float(ProbScale + 1), NaN}

\* --with-auth-token (cli.StringFlag)
Tokens == {"", "deadbeef"}

\* --listen-tls-key and --listen-tls-password (cli.StringFlag): no path, the
\* path of a file that holds usable PEM material, the path of one that does not
TlsPaths == {"", "good.pem", "bad.pem"}

\* cliCtx.String(name): the value of a string flag the app defines, and the
\* empty string for a name the app does not define
CliString(c, name) ==
    CASE name = "listen-tls-key" -> c.tlsKey
      [] name = "listen-tls-password" -> c.tlsPassword
      [] name = "with-auth-token" -> c.token
      [] OTHER -> ""

\* tls.LoadX509KeyPair(certFile, keyFile) returns an error
LoadX509KeyPairFails(certFile, keyFile) == certFile = "bad.pem" \/ keyFile = "bad.pem"

\* what r.BasicAuth() finds in a request: no Authorization header (ok is
\* false), or Basic user:password
Passwords == {"", "hunter2"}
NoCred == [ok |-> FALSE, user |-> "", pass |-> ""]
Creds ==
    {NoCred, [ok |-> TRUE, user |-> "wrong", pass |-> ""]}
        \cup {[ok |-> TRUE, user |-> "deadbeef", pass |-> p] : p \in Passwords}

\* the Authorization header of an incoming request.  Only injectAuthMiddleware
\* reads it, so a server without that middleware is sent requests without one.
RequestCreds(chain) ==
    IF \E i \in 1 .. Len(chain) : chain[i] = "auth" THEN Creds ELSE {NoCred}

\* the requests (one connection each) clients may send while the server runs,
\* numbered in the order the server accepts them
Reqs == {1, 2}

\* the signals given to signal.Notify
Signals == {"SIGHUP", "SIGINT"}

VARIABLES
    cfg,        \* the parsed command line flags (cliCtx)
    mainPc,     \* where the main goroutine stands
    exitCode,   \* -1 while the process runs, then its exit status
    handler,    \* what registerMetricsHandler registered on the mux
    srv,        \* the listener and the http.Server
    sig,        \* the signal goroutine, its channel and its context
    servePc,    \* where the doServe goroutine stands
    timedOut,   \* timeoutCtx, the 5 seconds given to srv.Shutdown, is done
    req         \* the requests

vars == <<cfg, mainPc, exitCode, handler, srv, sig, servePc, timedOut, req>>

(***************************************************************************)
(* Start-up checks and the handler chain.                                  *)
(***************************************************************************)
\* genMetricsHandler: if minMetrics > maxMetrics { exitWithError }
CountsRejected(minMetrics, maxMetrics) == minMetrics > maxMetrics

\* injectRandomErrorMiddleware: if prob < 0 || prob > 1 { exitWithError }
ProbRejected(prob) == FLt(prob, Float(0)) \/ FLt(Float(ProbScale), prob)

\* registerMetricsHandler: h is wrapped with the auth middleware when a token
\* is given, and that with the fault middleware when failProb != 0; the chain
\* lists the handlers from the outermost to the generator
WithAuth(h, token) == IF token # "" THEN <<"auth">> \o h ELSE h
WithFault(h, failProb) == IF FNe(failProb, Float(0)) THEN <<"fault">> \o h ELSE h
\* a slip: the two wrappers applied in the other order
BuildChainAuthOutermost(token, failProb) == WithAuth(WithFault(<<"gen">>, failProb), token)
BuildChain(token, failProb) == WithFault(WithAuth(<<"gen">>, token), failProb)

\* registerMetricsHandler exits the process (genMetricsHandler's check, then
\* injectRandomErrorMiddleware's when the fault middleware is installed)
StartupRejected(c) ==
    \/ CountsRejected(Int32(c.minCount), Int32(c.maxCount))
    \/ FNe(c.prob, Float(0)) /\ ProbRejected(c.prob)

NoHandler == [chain |-> <<>>, minMetrics |-> 0, maxMetrics |-> 0,
              token |-> "", prob |-> Float(0)]

(***************************************************************************)
(* The request handlers.                                                   *)
(***************************************************************************)
\* http.ResponseWriter.WriteHeader: the first status code written stands
WriteHeader(status, code) == IF status = 0 THEN code ELSE status

\* a slip: the comparison turned around
FaultFiresInverted(u, prob) == FLe(prob, u)

\* injectRandomErrorMiddleware: if rand.Float64() <= prob
FaultFires(u, prob) == FLe(u, prob)

\* slips: the username not compared; the password compared as well
AuthFailsHeaderOnly(cred, token) == ~cred.ok
AuthFailsPassword(cred, token) == ~cred.ok \/ cred.user # token \/ cred.pass # token

\* injectAuthMiddleware: user, _, ok := r.BasicAuth(); if !ok || user != token
AuthFails(cred, token) == ~cred.ok \/ cred.user # token

\* genMetricsHandler: numMetrics := rand.Int31n(maxMetrics-minMetrics) + minMetrics
NumMetricsPanics(minMetrics, maxMetrics) == Int31nPanics(Sub32(maxMetrics, minMetrics))
NumMetricsDraws(minMetrics, maxMetrics) ==
    {Add32(d, minMetrics) : d \in Int31nDraws(Sub32(maxMetrics, minMetrics))}

\* make([]metricsEnvelope, numMetrics) panics on a negative length
MakePanics(numMetrics) == numMetrics < 0

\* var m metricEntry: the zero value an envelope starts from
ZeroEnvelope == [Type |-> "", Payload |-> [shape |-> "nil"]]

\* a slip: the switch without its case 2
EnvelopeWithoutKernelCase(kind) ==
    CASE kind = 0 -> [Type |-> "load_avg",
                      Payload |-> [shape |-> "loadAvgMetric",
                                   Value |-> CHOOSE f \in Float32Draws : TRUE]]
      [] kind = 1 -> [Type |-> "cpu_usage",
                      Payload |-> [shape |-> "cpuUsageMetric",
                                   Value |-> [i \in 1 .. 5 |-> CHOOSE f \in Float32Draws : TRUE]]]
      [] OTHER -> ZeroEnvelope

\* the envelope of one draw of rand.Int31n(3): the switch has no default, and
\* a value outside its cases would leave the zero value
Envelope(kind) ==
    CASE kind = 0 -> [Type |-> "load_avg",
                      Payload |-> [shape |-> "loadAvgMetric",
                                   Value |-> CHOOSE f \in Float32Draws : TRUE]]
      [] kind = 1 -> [Type |-> "cpu_usage",
                      Payload |-> [shape |-> "cpuUsageMetric",
                                   Value |-> [i \in 1 .. 5 |-> CHOOSE f \in Float32Draws : TRUE]]]
      [] kind = 2 -> [Type |-> "last_kernel_upgrade",
                      Payload |-> [shape |-> "lastKernelUpgrade", Value |-> "time.Now()"]]
      [] OTHER -> ZeroEnvelope

\* the lists the loop can build: numMetrics envelopes, each of a drawn kind
MetricsLists(numMetrics) ==
    {[i \in 1 .. numMetrics |-> Envelope(kinds[i])] :
        kinds \in [1 .. numMetrics -> Int31nDraws(3)]}

\* json.NewEncoder(w).Encode(metricsList): these payloads always marshal, so
\* it fails only in w.Write, which has written the header (200) by then
EncodeOutcomes == {"ok", "write error"}

NewReq == [out |-> "none", pos |-> 0, cred |-> NoCred, status |-> 0, trace |-> <<>>,
           numMetrics |-> 0, metricsList |-> <<>>, logs |-> <<>>]

(***************************************************************************)
(* The state after the command line is parsed, before demowareApp runs.    *)
(***************************************************************************)
InitWith(configs) ==
    /\ cfg \in configs
    /\ mainPc = "start"
    /\ exitCode = -1
    /\ handler = NoHandler
    /\ srv = [listener |-> "none", tracked |-> FALSE, inShutdown |-> FALSE,
              binds |-> 0, closes |-> 0, tlsConfig |-> FALSE, proto |-> "none",
              shutdowns |-> 0]
    /\ sig = [pc |-> "none", ch |-> <<>>, ctxDone |-> FALSE]
    /\ servePc = "none"
    /\ timedOut = FALSE
    /\ req = [r \in Reqs |-> NewReq]

\* the command lines that leave the TLS flags at their default, the empty path
Init ==
    InitWith([minCount : FlagValues, maxCount : FlagValues,
              token : Tokens, prob : ProbValues,
              tlsKey : {""}, tlsPassword : {""}])

\* os.Exit, or main returning: every goroutine ends with the process
Alive == mainPc # "exited"

(***************************************************************************)
(* The main goroutine: demowareApp.                                        *)
(***************************************************************************)
\* ctx := signalAwareContext(context.Background()): spawns the signal goroutine
SignalAwareContext ==
    /\ mainPc = "start"
    /\ mainPc' = "register"
    /\ sig' = [sig EXCEPT !.pc = "spawned"]
    /\ UNCHANGED <<cfg, exitCode, handler, srv, servePc, timedOut, req>>

\* registerMetricsHandler(cliCtx, mux): exitWithError on a rejected flag, else
\* the chain is registered on the mux
RegisterMetricsHandler ==
    /\ mainPc = "register"
    /\ IF StartupRejected(cfg)
       THEN /\ mainPc' = "exited"
            /\ exitCode' = 1
            /\ UNCHANGED handler
       ELSE /\ mainPc' = "startServer"
            /\ handler' = [chain |-> BuildChain(cfg.token, cfg.prob),
                           minMetrics |-> Int32(cfg.minCount),
                           maxMetrics |-> Int32(cfg.maxCount),
                           token |-> cfg.token, prob |-> cfg.prob]
            /\ UNCHANGED exitCode
    /\ UNCHANGED <<cfg, srv, sig, servePc, timedOut, req>>

\* the flag startServer reads the certificate path from
TlsCertFlag == "listen-tls-key"

\* the flag startServer reads the key path from
TlsKeyFlag == "listen-tlk-password"

\* startServer: net.Listen fails and the error ends the process through
\* exitWithError; with both paths read non-empty the key pair is loaded, and a
\* failed load ends the process the same way, the listener left open; else
\* go doServe(srv, l) is spawned
StartServer ==
    /\ mainPc = "startServer"
    /\ \E bound \in BOOLEAN :
        LET tlsCertFile == CliString(cfg, TlsCertFlag)
            tlsKeyFile == CliString(cfg, TlsKeyFlag)
            load == tlsCertFile # "" /\ tlsKeyFile # ""
        IN  IF ~bound
            THEN /\ mainPc' = "exited"
                 /\ exitCode' = 1
                 /\ UNCHANGED <<srv, servePc>>
            ELSE IF load /\ LoadX509KeyPairFails(tlsCertFile, tlsKeyFile)
            THEN /\ srv' = [srv EXCEPT !.listener = "open", !.binds = @ + 1]
                 /\ mainPc' = "exited"
                 /\ exitCode' = 1
                 /\ UNCHANGED servePc
            ELSE /\ srv' = [srv EXCEPT !.listener = "open", !.binds = @ + 1,
                                       !.tlsConfig = load]
                 /\ servePc' = "spawned"
                 /\ mainPc' = "wait"
                 /\ UNCHANGED exitCode
    /\ UNCHANGED <<cfg, handler, sig, timedOut, req>>

\* srv.Shutdown closes the listeners srv.Serve has registered
CloseListeners(s) ==
    IF s.tracked /\ s.listener = "open"
    THEN [s EXCEPT !.listener = "closed", !.closes = @ + 1, !.inShutdown = TRUE,
                   !.shutdowns = @ + 1]
    ELSE [s EXCEPT !.inShutdown = TRUE, !.shutdowns = @ + 1]

\* <-ctx.Done(), then srv.Shutdown(timeoutCtx) starts: it marks the server as
\* shutting down and closes the listeners
ShutdownBegin ==
    /\ mainPc = "wait"
    /\ sig.ctxDone
    /\ mainPc' = "shutdown"
    /\ srv' = CloseListeners(srv)
    /\ UNCHANGED <<cfg, exitCode, handler, sig, servePc, timedOut, req>>

\* the requests whose handler has not returned: their connections are not idle
InFlight == {r \in Reqs : req[r].out = "active"}

\* context.WithTimeout(context.Background(), 5*time.Second): the timer fires
Timeout ==
    /\ mainPc = "shutdown"
    /\ ~timedOut
    /\ timedOut' = TRUE
    /\ UNCHANGED <<cfg, mainPc, exitCode, handler, srv, sig, servePc, req>>

\* srv.Shutdown returns nil once no connection is busy, ctx.Err() once
\* timeoutCtx (5 seconds) is done
ShutdownMayReturn(busy, ctxDone) == busy = {} \/ ctxDone

\* srv.Shutdown returns, its error is dropped, demowareApp returns nil and the
\* process exits with status 0
ShutdownReturn ==
    /\ mainPc = "shutdown"
    /\ ShutdownMayReturn(InFlight, timedOut)
    /\ mainPc' = "exited"
    /\ exitCode' = 0
    /\ UNCHANGED <<cfg, handler, srv, sig, servePc, timedOut, req>>

(***************************************************************************)
(* The signal goroutine of signalAwareContext.                             *)
(***************************************************************************)
\* sigCh := make(chan os.Signal, 1); signal.Notify(sigCh, SIGHUP, SIGINT)
SignalNotify ==
    /\ Alive
    /\ sig.pc = "spawned"
    /\ sig' = [sig EXCEPT !.pc = "waiting"]
    /\ UNCHANGED <<cfg, mainPc, exitCode, handler, srv, servePc, timedOut, req>>

\* signal.Notify is in force from the goroutine's call on
Notified == sig.pc \in {"waiting", "done"}

\* the exit status of a process the signal has killed: 128 + the signal number
KilledStatus(s) == IF s = "SIGHUP" THEN 129 ELSE 130

\* the process has been killed by a signal
KilledBySignal == exitCode \in {KilledStatus(s) : s \in Signals}

\* the process is sent a signal (any number of times).  With signal.Notify in
\* force os/signal puts it on sigCh when there is room (capacity 1) and drops
\* it otherwise; before the goroutine has called signal.Notify the runtime
\* takes the default action and the process dies at once, nothing closed
SendSignal(s) ==
    /\ Alive
    /\ IF Notified
       THEN /\ sig' = [sig EXCEPT !.ch = IF Len(@) < 1 THEN Append(@, s) ELSE @]
            /\ UNCHANGED <<mainPc, exitCode>>
       ELSE /\ mainPc' = "exited"
            /\ exitCode' = KilledStatus(s)
            /\ UNCHANGED sig
    /\ UNCHANGED <<cfg, handler, srv, servePc, timedOut, req>>

\* s := <-sigCh; cancelFn(): the goroutine ends
SignalReceive ==
    /\ Alive
    /\ sig.pc = "waiting"
    /\ sig.ch # <<>>
    /\ sig' = [sig EXCEPT !.pc = "done", !.ch = Tail(@), !.ctxDone = TRUE]
    /\ UNCHANGED <<cfg, mainPc, exitCode, handler, srv, servePc, timedOut, req>>

(***************************************************************************)
(* The doServe goroutine.                                                  *)
(***************************************************************************)
\* useTLS := srv.TLSConfig != nil chooses srv.ServeTLS(l, "", "") or
\* srv.Serve(l)
ServeProto(s) == IF s.tlsConfig THEN "https" ELSE "http"

\* srv.Serve(l) starts, under TLS or not: it registers the listener, or, when
\* Shutdown has been called already, returns ErrServerClosed and its deferred
\* l.Close() runs
ServeStart ==
    /\ Alive
    /\ servePc = "spawned"
    /\ IF srv.inShutdown
       THEN /\ servePc' = "returned"
            /\ srv' = [srv EXCEPT !.listener = "closed", !.closes = @ + 1]
       ELSE /\ servePc' = "serving"
            /\ srv' = [srv EXCEPT !.tracked = TRUE, !.proto = ServeProto(srv)]
    /\ UNCHANGED <<cfg, mainPc, exitCode, handler, sig, timedOut, req>>

\* l.Accept() fails on the closed listener and srv.Serve returns; its deferred
\* l.Close() goes through the same onceCloseListener and closes nothing again
ServeReturn ==
    /\ Alive
    /\ servePc = "serving"
    /\ srv.listener = "closed"
    /\ servePc' = "returned"
    /\ srv' = [srv EXCEPT !.tracked = FALSE]
    /\ UNCHANGED <<cfg, mainPc, exitCode, handler, sig, timedOut, req>>

(***************************************************************************)
(* The requests: one goroutine per connection, one step per handler.       *)
(***************************************************************************)
\* the handler a request stands at
At(r) == IF req[r].out = "active" THEN handler.chain[req[r].pos] ELSE "none"

\* l.Accept() returns a connection and the mux calls the outermost handler
Accept(r) ==
    /\ Alive
    /\ servePc = "serving"
    /\ srv.listener = "open"
    /\ req[r].out = "none"
    /\ \A q \in Reqs : q < r => req[q].out # "none"
    /\ \E c \in RequestCreds(handler.chain) :
        req' = [req EXCEPT ![r] = [@ EXCEPT !.out = "active", !.pos = 1, !.cred = c]]
    /\ UNCHANGED <<cfg, mainPc, exitCode, handler, srv, sig, servePc, timedOut>>

\* the handler of injectRandomErrorMiddleware
FaultHandler(r) ==
    /\ Alive
    /\ At(r) = "fault"
    /\ \E u \in Float64Draws :
        req' = [req EXCEPT ![r] =
            IF FaultFires(u, handler.prob)
            THEN [@ EXCEPT !.trace = Append(@, "fault"),
                           !.status = WriteHeader(@, 500),
                           !.logs = Append(@, "injected error"),
                           !.out = "responded"]
            ELSE [@ EXCEPT !.trace = Append(@, "fault"), !.pos = @ + 1]]
    /\ UNCHANGED <<cfg, mainPc, exitCode, handler, srv, sig, servePc, timedOut>>

\* a slip: the authentication failure logged with Fatal, which ends the process
AuthHandlerFatal(r) ==
    /\ Alive
    /\ At(r) = "auth"
    /\ req' = [req EXCEPT ![r] =
            IF AuthFails(req[r].cred, handler.token)
            THEN [@ EXCEPT !.trace = Append(@, "auth"),
                           !.status = WriteHeader(@, 401),
                           !.logs = Append(@, "authentication failed"),
                           !.out = "responded"]
            ELSE [@ EXCEPT !.trace = Append(@, "auth"), !.pos = @ + 1]]
    /\ IF AuthFails(req[r].cred, handler.token)
       THEN mainPc' = "exited" /\ exitCode' = 1
       ELSE UNCHANGED <<mainPc, exitCode>>
    /\ UNCHANGED <<cfg, handler, srv, sig, servePc, timedOut>>

\* the handler of injectAuthMiddleware
AuthHandler(r) ==
    /\ Alive
    /\ At(r) = "auth"
    /\ req' = [req EXCEPT ![r] =
            IF AuthFails(req[r].cred, handler.token)
            THEN [@ EXCEPT !.trace = Append(@, "auth"),
                           !.status = WriteHeader(@, 401),
                           !.logs = Append(@, "authentication failed"),
                           !.out = "responded"]
            ELSE [@ EXCEPT !.trace = Append(@, "auth"), !.pos = @ + 1]]
    /\ UNCHANGED <<cfg, mainPc, exitCode, handler, srv, sig, servePc, timedOut>>

\* the handler of genMetricsHandler; a panic is recovered by net/http, which
\* closes the connection without a response
GenHandler(r) ==
    /\ Alive
    /\ At(r) = "gen"
    /\ \/ /\ NumMetricsPanics(handler.minMetrics, handler.maxMetrics)
          /\ req' = [req EXCEPT ![r] =
                [@ EXCEPT !.trace = Append(@, "gen"), !.out = "panic"]]
       \/ /\ ~NumMetricsPanics(handler.minMetrics, handler.maxMetrics)
          /\ \E n \in NumMetricsDraws(handler.minMetrics, handler.maxMetrics) :
                IF MakePanics(n)
                THEN req' = [req EXCEPT ![r] =
                        [@ EXCEPT !.trace = Append(@, "gen"), !.numMetrics = n,
                                  !.out = "panic"]]
                ELSE \E list \in MetricsLists(n), enc \in EncodeOutcomes :
                        req' = [req EXCEPT ![r] =
                          [@ EXCEPT !.trace = Append(@, "gen"),
                                    !.numMetrics = n,
                                    !.metricsList = list,
                                    !.status = IF enc = "ok"
                                               THEN WriteHeader(@, 200)
                                               ELSE WriteHeader(WriteHeader(@, 200), 500),
                                    !.logs = Append(@, IF enc = "ok" THEN "num_metrics"
                                                                    ELSE "encode error"),
                                    !.out = "responded"]]
    /\ UNCHANGED <<cfg, mainPc, exitCode, handler, srv, sig, servePc, timedOut>>

Next ==
    \/ SignalAwareContext
    \/ RegisterMetricsHandler
    \/ StartServer
    \/ ShutdownBegin
    \/ Timeout
    \/ ShutdownReturn
    \/ SignalNotify
    \/ \E s \in Signals : SendSignal(s)
    \/ SignalReceive
    \/ ServeStart
    \/ ServeReturn
    \/ \E r \in Reqs : Accept(r)
    \/ \E r \in Reqs : FaultHandler(r)
    \/ \E r \in Reqs : AuthHandler(r)
    \/ \E r \in Reqs : GenHandler(r)

Spec == Init /\ [][Next]_vars

\* the start of the runs checked for progress: the shutdown reads no response,
\* so these keep the configurations whose responses carry no envelope (a
\* max-count of at most 1, or one that int32() makes negative)
InitFair == Init /\ (cfg.maxCount.hi = 0 => cfg.maxCount.lo <= 1)

\* the command lines that set the TLS flags, over the counts up to 1 and the
\* probabilities the check accepts
InitTLS ==
    InitWith([minCount : {UintVal(0, 0), UintVal(0, 1)}, maxCount : {UintVal(0, 1)},
              token : Tokens, prob : {Float(0), Float(1)},
              tlsKey : TlsPaths, tlsPassword : TlsPaths])

SpecTLS == InitTLS /\ [][Next]_vars

\* the scheduler runs the signal goroutine and the main goroutine, and the
\* runtime's timer fires; a request handler may stall for ever
FairSpec ==
    /\ InitFair
    /\ [][Next]_vars
    /\ WF_vars(SignalReceive)
    /\ WF_vars(ShutdownBegin)
    /\ WF_vars(Timeout)
    /\ WF_vars(ShutdownReturn)

\* the lifecycle of section 4.5, read off the main goroutine
Lifecycle ==
    CASE mainPc = "wait" -> "Listening"
      [] mainPc = "shutdown" -> "ShuttingDown"
      [] mainPc = "exited" /\ srv.binds > 0 -> "Stopped"
      [] OTHER -> "Created"

LifecycleRank(l) ==
    CASE l = "Created" -> 0
      [] l = "Listening" -> 1
      [] l = "ShuttingDown" -> 2
      [] l = "Stopped" -> 3

(***************************************************************************)
(* What a request has gone through.                                        *)
(***************************************************************************)
Arrived(r) == req[r].out # "none"
Finished(r) == req[r].out \in {"responded", "panic"}
Visited(r, h) == \E i \in 1 .. Len(req[r].trace) : req[r].trace[i] = h
Logged(r, what) == \E i \in 1 .. Len(req[r].logs) : req[r].logs[i] = what
IsPrefix(s, t) == Len(s) <= Len(t) /\ \A i \in 1 .. Len(s) : s[i] = t[i]
Registered == handler.chain # <<>>
AuthEnabled == Registered /\ cfg.token # ""
FaultEnabled == Registered /\ FNe(cfg.prob, Float(0))
\* the Basic-auth username of the request is missing or is not the token
BadUser(r) == ~req[r].cred.ok \/ req[r].cred.user # cfg.token

(***************************************************************************)
(* The claims.                                                             *)
(***************************************************************************)
\* the number of envelopes of the response of r
Count(r) == ToUint(Len(req[r].metricsList))

\* C1: for every configuration accepted at start-up with minCount <= maxCount,
\* every request that reaches the payload generator produces a response whose
\* number of envelopes N satisfies minCount <= N <= maxCount.
C1_CountWithinBounds ==
    (Registered /\ ULe(cfg.minCount, cfg.maxCount)) =>
        \A r \in Reqs : Visited(r, "gen") =>
            /\ req[r].out = "responded"
            /\ ULe(cfg.minCount, Count(r))
            /\ ULe(Count(r), cfg.maxCount)

\* C2: with minCount == maxCount, no auth and no fault injection, every GET
\* that completes does so with status 200 and a list of exactly minCount
\* envelopes; the handler does not panic.
C2_EqualCountsServed ==
    (Registered /\ cfg.minCount = cfg.maxCount /\ cfg.token = ""
                /\ cfg.prob = Float(0)) =>
        \A r \in Reqs : Finished(r) =>
            /\ req[r].out = "responded"
            /\ req[r].status = 200
            /\ Count(r) = cfg.minCount

\* C3: with both middlewares enabled a request goes through fault injection,
\* then the auth check, then the generator: a request that fault injection
\* fails has not had its credentials checked and has not reached the
\* generator, and a request that fails the auth check has not reached the
\* generator.
C3_PipelineOrder ==
    (AuthEnabled /\ FaultEnabled) =>
        \A r \in Reqs :
            /\ IsPrefix(req[r].trace, <<"fault", "auth", "gen">>)
            /\ Logged(r, "injected error") =>
                    ~Visited(r, "auth") /\ ~Visited(r, "gen")
            /\ Logged(r, "authentication failed") => ~Visited(r, "gen")

\* one request failed by fault injection, another through all three handlers
C3_Witness ==
    /\ AuthEnabled /\ FaultEnabled
    /\ \E r, q \in Reqs :
        /\ req[r].status = 500 /\ req[r].trace = <<"fault">>
        /\ req[q].status = 200 /\ req[q].trace = <<"fault", "auth", "gen">>

\* C4 as claimed: with a non-empty auth token, every request whose username
\* is missing or differs from the token receives status 401, and the generator
\* is never invoked for it.
C4_BadUserAlways401 ==
    AuthEnabled =>
        \A r \in Reqs : (Arrived(r) /\ BadUser(r)) =>
            /\ ~Visited(r, "gen")
            /\ Finished(r) => req[r].status = 401

\* C4 as amended: with a non-empty auth token, the generator is never invoked
\* for a request whose username is missing or differs from the token; the
\* request receives status 401 when it reaches the auth check, and otherwise
\* the status 500 of the fault injection that stopped it before.
C4_BadUserRejected ==
    AuthEnabled =>
        \A r \in Reqs : (Arrived(r) /\ BadUser(r)) =>
            /\ ~Visited(r, "gen")
            /\ Visited(r, "auth") => (Finished(r) /\ req[r].status = 401)
            /\ (Finished(r) /\ ~Visited(r, "auth")) =>
                    (req[r].status = 500 /\ Logged(r, "injected error"))

\* a request without credentials and one with a wrong username, both 401
C4_Witness ==
    /\ AuthEnabled
    /\ \E r, q \in Reqs :
        /\ ~req[r].cred.ok /\ req[r].status = 401
        /\ req[q].cred.ok /\ req[q].cred.user # cfg.token /\ req[q].status = 401

\* C5: with a non-empty auth token, a request whose username equals the token
\* is never answered 401, whatever its password, and the auth middleware
\* hands it to the generator.
C5_GoodUserPasses ==
    AuthEnabled =>
        \A r \in Reqs : (Arrived(r) /\ req[r].cred.ok /\ req[r].cred.user = cfg.token) =>
            /\ req[r].status # 401
            /\ ~Logged(r, "authentication failed")
            /\ Visited(r, "auth") => (At(r) = "gen" \/ Visited(r, "gen"))

\* two requests with the right username and different passwords, both served
C5_Witness ==
    /\ AuthEnabled
    /\ \E r, q \in Reqs :
        /\ req[r].cred.user = cfg.token /\ req[q].cred.user = cfg.token
        /\ req[r].cred.pass # req[q].cred.pass
        /\ req[r].status = 200 /\ req[q].status = 200

\* C6: with fault probability 1 every request is answered 500 by the fault
\* middleware and neither the auth check nor the generator runs for it; with
\* fault probability 0 the fault middleware is not installed and no request is
\* answered by fault injection.
C6_FaultProbabilityExtremes ==
    /\ (Registered /\ cfg.prob = Float(ProbScale)) =>
            \A r \in Reqs :
                /\ ~Visited(r, "auth") /\ ~Visited(r, "gen")
                /\ Arrived(r) => (At(r) = "fault" \/ req[r].status = 500)
    /\ (Registered /\ cfg.prob = Float(0)) =>
            \A r \in Reqs :
                /\ ~Visited(r, "fault")
                /\ ~Logged(r, "injected error")
                /\ req[r].status # 500

\* both requests answered 500 under probability 1, with auth configured
C6_Witness ==
    /\ Registered /\ cfg.prob = Float(ProbScale) /\ cfg.token # ""
    /\ \A r \in Reqs : req[r].status = 500 /\ req[r].out = "responded"

\* C7: a start-up with minCount > maxCount, or with a fault probability
\* below 0 or above 1, ends the process with a non-zero status before a
\* listener is bound or a request served: the lifecycle never leaves Created.
C7_InvalidConfigNeverListens ==
    (\/ ~ULe(cfg.minCount, cfg.maxCount)
     \/ FLt(cfg.prob, Float(0))
     \/ FLt(Float(ProbScale), cfg.prob)) =>
        /\ Lifecycle = "Created"
        /\ srv.binds = 0
        /\ \A r \in Reqs : ~Arrived(r)
        /\ exitCode # 0
        /\ mainPc \in {"start", "register", "exited"}

\* C8: every request handled ends with exactly one status out of 200, 401 and
\* 500: 401 only when auth is enabled and the credential check fails, 500 only
\* when fault injection fires or serialization fails, 200 only when the
\* generator ran and its list was serialized.
C8_OneStatusPerRequest ==
    \A r \in Reqs : Finished(r) =>
        /\ req[r].status \in {200, 401, 500}
        /\ req[r].status = 401 => (AuthEnabled /\ BadUser(r))
        /\ req[r].status = 500 =>
                (Logged(r, "injected error") \/ Logged(r, "encode error"))
        /\ req[r].status = 200 =>
                (Visited(r, "gen") /\ Logged(r, "num_metrics"))

\* what C9 asks of every step: the lifecycle stays or moves one state forward,
\* the listener has been bound at most once, and an opened listener has been
\* closed exactly once when the process has ended
C9_Step ==
    /\ LifecycleRank(Lifecycle') \in {LifecycleRank(Lifecycle), LifecycleRank(Lifecycle) + 1}
    /\ srv'.binds <= 1
    /\ (mainPc' = "exited" /\ srv'.binds > 0) => srv'.closes = 1

\* C9: the lifecycle only moves forward along Created -> Listening ->
\* ShuttingDown -> Stopped, the listener is never bound a second time, and a
\* listener that was opened has been closed exactly once when the process ends.
C9_ForwardAndClosedOnce == [][C9_Step]_vars

\* the process has received a signal: it waits on the channel, the goroutine
\* has taken it off, or it has killed the process
SignalReceived == sig.ch # <<>> \/ sig.ctxDone \/ KilledBySignal

\* C10: once a signal is received after start-up, the process ends in Stopped
\* with exit code 0, whether the connections drain or the grace timer fires,
\* also when a request never completes.
C10_SignalLeadsToStopped ==
    (srv.binds = 1 /\ SignalReceived) ~> (Lifecycle = "Stopped" /\ exitCode = 0)

\* both TLS paths are supplied non-empty on the command line
TlsRequested == cfg.tlsKey # "" /\ cfg.tlsPassword # ""

\* C11: a serving listener serves TLS when both the certificate path and the
\* key path were supplied non-empty, and plain HTTP when either is empty.
C11_TlsWhenBothPaths ==
    servePc = "serving" => srv.proto = (IF TlsRequested THEN "https" ELSE "http")

\* what C12 asks of every step: a signal that comes during the top-level wait
\* goes to the shutdown and does not end the process itself, srv.Shutdown is
\* started at most once and only after a signal has cancelled the context, the
\* cancellation is never undone, the listener is bound at most once, and a
\* signal that reaches the channel after the cancellation changes neither the
\* server nor the lifecycle state
C12_Step ==
    /\ mainPc = "wait" => ~KilledBySignal'
    /\ srv'.shutdowns <= 1
    /\ srv'.binds <= 1
    /\ srv'.shutdowns > srv.shutdowns => sig.ctxDone
    /\ sig.ctxDone => sig'.ctxDone
    /\ (sig.ctxDone /\ sig'.ch # sig.ch) =>
            /\ Lifecycle' = Lifecycle
            /\ UNCHANGED <<srv, mainPc, exitCode, servePc>>

\* C12: a termination signal cancels the top-level wait exactly once: the
\* first signal starts the shutdown, and a signal delivered afterwards starts
\* no second shutdown, does not rebind the listener and does not change the
\* lifecycle state.
C12_FirstSignalWins == [][C12_Step]_vars

\* the handler a finished request ended in
EndedIn(r) == req[r].trace[Len(req[r].trace)]

\* the application logger holds one record for the request, the one of the
\* outcome it ended with: the error of the handler that failed it, or the
\* count of generated metrics, and a count only under status 200
OneRecord(r) ==
    /\ Len(req[r].logs) = 1
    /\ EndedIn(r) = "fault" => req[r].logs[1] = "injected error"
    /\ EndedIn(r) = "auth" => req[r].logs[1] = "authentication failed"
    /\ EndedIn(r) = "gen" => req[r].logs[1] \in {"num_metrics", "encode error"}
    /\ req[r].logs[1] = "num_metrics" => req[r].status = 200

\* C13: every invocation of the request pipeline emits exactly one
\* observability record, whatever its outcome: the record carries the error on
\* a failure and the count of generated metrics on success.
C13_OneRecordPerInvocation == \A r \in Reqs : Finished(r) => OneRecord(r)

\* the step is one of request r's handlers running
HandlerStep(r) == req[r].out = "active" /\ req'[r] # req[r]

\* the request has been answered with a failure: 401, 500, or the encode
\* error logged after the header went out
Failed(r) ==
    /\ req[r].out = "responded"
    /\ req[r].status \in {401, 500} \/ Logged(r, "encode error")

\* what C14 asks of every handler step, a failing one included: it writes
\* nothing but the request's own record, so the configuration, the registered
\* chain, the server, the lifecycle state and every other request stay as
\* they are
C14_Step ==
    \A r \in Reqs : HandlerStep(r) =>
        /\ UNCHANGED <<cfg, handler, srv, servePc, mainPc, exitCode>>
        /\ Lifecycle' = Lifecycle
        /\ \A q \in Reqs \ {r} : req'[q] = req[q]

\* C14: under any interleaving of concurrent requests, a request that fails
\* leaves the server Listening, the configuration unchanged and every other
\* request unaffected; request handling writes no shared state.
C14_FailureIsLocal == [][C14_Step]_vars

\* one request has failed with 401 while the other is half way through the
\* pipeline, and the server listens
C14_Witness ==
    /\ Lifecycle = "Listening"
    /\ \E r, q \in Reqs :
        /\ r # q
        /\ Failed(r) /\ req[r].status = 401
        /\ req[q].out = "active" /\ Len(req[q].trace) > 0

\* startServer has returned, with the server or with an error that
\* exitWithError turned into status 1; a process killed by a signal inside
\* startServer or before it has not returned from it
StartServerReturned ==
    /\ Registered
    /\ \/ mainPc \in {"wait", "shutdown"}
       \/ mainPc = "exited" /\ (srv.binds > 0 \/ exitCode = 1)

\* the command line names both TLS files and their key pair does not load
BadTlsFiles == TlsRequested /\ LoadX509KeyPairFails(cfg.tlsKey, cfg.tlsPassword)

\* C15: when binding the listener fails or the TLS key pair does not load,
\* startServer returns the error without starting the serving goroutine and the
\* process ends with a non-zero status, no request served; on success it
\* returns with the listener bound and the serving goroutine started.
C15_StartupFailureIsFatal ==
    StartServerReturned =>
        IF srv.binds = 0 \/ BadTlsFiles
        THEN /\ mainPc = "exited" /\ exitCode # 0
             /\ servePc = "none"
             /\ \A r \in Reqs : ~Arrived(r)
        ELSE srv.binds = 1 /\ servePc # "none"

\* a float payload value lies in [0, 1)
InUnit(f) == FLe(Float(0), f) /\ FLt(f, Float(ProbScale))

\* the envelope's type is one of the three kinds and its payload has the shape
\* of that kind: one value, a list of exactly 5 values, a timestamp
WellFormed(m) ==
    CASE m.Type = "load_avg" ->
            m.Payload.shape = "loadAvgMetric" /\ InUnit(m.Payload.Value)
      [] m.Type = "cpu_usage" ->
            /\ m.Payload.shape = "cpuUsageMetric"
            /\ DOMAIN m.Payload.Value = 1 .. 5
            /\ \A i \in 1 .. 5 : InUnit(m.Payload.Value[i])
      [] m.Type = "last_kernel_upgrade" ->
            m.Payload.shape = "lastKernelUpgrade" /\ m.Payload.Value = "time.Now()"
      [] OTHER -> FALSE

\* C16: every envelope of every generated response has one of the types
\* load_avg, cpu_usage, last_kernel_upgrade and the payload shape of that type;
\* none is left with an empty type or without a payload.
C16_EnvelopesWellFormed ==
    \A r \in Reqs : \A i \in 1 .. Len(req[r].metricsList) :
        WellFormed(req[r].metricsList[i])

\* one response carries a cpu_usage envelope with its 5 values and another a
\* last_kernel_upgrade envelope
C16_Witness ==
    \E r, q \in Reqs :
        /\ req[r].out = "responded" /\ req[q].out = "responded"
        /\ Len(req[r].metricsList) > 0 /\ Len(req[q].metricsList) > 0
        /\ req[r].metricsList[1].Type = "cpu_usage"
        /\ DOMAIN req[r].metricsList[1].Payload.Value = 1 .. 5
        /\ req[q].metricsList[1].Type = "last_kernel_upgrade"

\* a < b on uint values
ULt(a, b) == ULe(a, b) /\ a # b

\* the counts a response of the registered generator can carry: the draws of
\* numMetrics that make accepts, none when rand.Int31n panics
PossibleCounts ==
    IF NumMetricsPanics(handler.minMetrics, handler.maxMetrics)
    THEN {}
    ELSE {ToUint(n) : n \in {d \in NumMetricsDraws(handler.minMetrics, handler.maxMetrics) :
                                ~MakePanics(d)}}

\* the values of [minCount, maxCount) the claim is checked on: all of them for
\* counts below 2^31, the lowest one otherwise
RangeSamples(minCount, maxCount) ==
    IF minCount.hi = 0 /\ maxCount.hi = 0
    THEN {UintVal(0, k) : k \in minCount.lo .. (maxCount.lo - 1)}
    ELSE {minCount}

\* C17: when minCount < maxCount the number of envelopes of a generated
\* response ranges over exactly [minCount, maxCount): every value from
\* minCount to maxCount-1 is a possible count and maxCount is never returned.
C17_CountRangesOverHalfOpen ==
    (Registered /\ ULt(cfg.minCount, cfg.maxCount)) =>
        /\ \A r \in Reqs : req[r].out = "responded" /\ Visited(r, "gen") =>
                ULe(cfg.minCount, Count(r)) /\ ULt(Count(r), cfg.maxCount)
        /\ \A v \in RangeSamples(cfg.minCount, cfg.maxCount) : v \in PossibleCounts

\* genMetricsHandler has compared the counts: the chain is registered, or
\* exitWithError has ended the process inside registerMetricsHandler
CountsChecked == Registered \/ (mainPc = "exited" /\ exitCode = 1)

\* the probability does not end the process in injectRandomErrorMiddleware,
\* which runs after the counts are compared
ProbAccepted == ~(FNe(cfg.prob, Float(0)) /\ ProbRejected(cfg.prob))

\* maxMetrics - minMetrics stays within int32: a wrapped difference of an
\* accepted pair is negative
DifferenceFits == Sub32(handler.maxMetrics, handler.minMetrics) >= 0

\* C18: the conversion of the unsigned flag values to int32 preserves the
\* start-up check and the draw: a pair is accepted exactly when minCount <=
\* maxCount as unsigned values, and for an accepted pair the difference does
\* not overflow and no drawn count is negative, so no list of negative length
\* is allocated.
C18_NarrowingPreservesCheckAndDraw ==
    /\ (CountsChecked /\ ProbAccepted) => (Registered <=> ULe(cfg.minCount, cfg.maxCount))
    /\ Registered => DifferenceFits
    /\ \A r \in Reqs : req[r].numMetrics >= 0

====
